---- MODULE Spec2Model ----
(***************************************************************************)
(* Model of scraper.py: the Streamlit script main(), run_scraper,          *)
(* get_stock_data, save_data, create_output_directory and                  *)
(* get_indian_tickers.  The financial-data provider, the file system and   *)
(* the user are the environment: every call to them is a nondeterministic  *)
(* choice among the outcomes the code distinguishes.                       *)
(*                                                                         *)
(* Strings the code transforms (company name, ticker symbol, directory     *)
(* name) are sequences of one-character strings.  A file path              *)
(* os.path.join(dir, filename) is the pair <<dir, filename>>.  Python's    *)
(* None is the empty tuple.                                                *)
(***************************************************************************)
EXTENDS Integers, Sequences, FiniteSets, TLC

VARIABLES pc, session, submitted, rs, gsd

vars == <<pc, session, submitted, rs, gsd>>

None == <<>>

(***************************************************************************)
(* Bound of the model.                                                     *)
(***************************************************************************)
\* how many times the outcome may differ between one data category and the next
MaxOutcomeChanges == 1

(***************************************************************************)
(* Program constants: the form of main().                                  *)
(***************************************************************************)
\* st.number_input("Retry count:", min_value=1, max_value=5, value=3)
MinRetry == 1
DefaultRetry == 3
\* st.number_input("Delay between requests (seconds):", min_value=1, max_value=10, value=5)
MinDelay == 1
DefaultDelay == 5

\* the forms the user submits: an empty text input with the preset numbers,
\* a name without spaces with the smallest retry count and delay,
\* a name with spaces with the preset retry count and delay,
\* a name with a "." with the smallest retry count and delay
Submissions ==
    { [ticker_name |-> <<>>, retry_count |-> DefaultRetry, delay |-> DefaultDelay],
      [ticker_name |-> <<"T", "C", "S">>, retry_count |-> MinRetry, delay |-> MinDelay],
      [ticker_name |-> <<"T", " ", "C", " ", "S">>, retry_count |-> DefaultRetry,
       delay |-> DefaultDelay],
      [ticker_name |-> <<"M", ".", "M">>, retry_count |-> MinRetry, delay |-> MinDelay] }

(***************************************************************************)
(* Pure helpers.                                                           *)
(***************************************************************************)
\* replaces only the first occurrence, as str.replace(old, new, 1) does
RECURSIVE replace_FirstOnly(_, _, _)
replace_FirstOnly(s, old, new) ==
    IF s = <<>> THEN <<>>
    ELSE IF Head(s) = old THEN new \o Tail(s)
    ELSE <<Head(s)>> \o replace_FirstOnly(Tail(s), old, new)

\* str.replace(old, new) for a one-character old and a new of any length
RECURSIVE replace(_, _, _)
replace(s, old, new) ==
    IF s = <<>> THEN <<>>
    ELSE (IF Head(s) = old THEN new ELSE <<Head(s)>>) \o replace(Tail(s), old, new)

extensions == << <<".", "N", "S">> >>

get_indian_tickers(base_ticker) ==
    [i \in 1..Len(extensions) |-> base_ticker \o extensions[i]]

StockDataPrefix == <<"s", "t", "o", "c", "k", "_", "d", "a", "t", "a", "_">>

\* only the first "." is replaced
OutputDirName_FirstDot(ticker_symbol) ==
    StockDataPrefix \o replace_FirstOnly(ticker_symbol, ".", <<"_">>)

OutputDirName(ticker_symbol) == StockDataPrefix \o replace(ticker_symbol, ".", <<"_">>)

join(output_dir, filename) == <<output_dir, filename>>

\* the data categories of get_stock_data, in the order the code fetches them
Categories ==
    << "company_info.csv", "historical_data.csv", "income_statement.csv",
       "balance_sheet.csv", "cash_flow.csv", "quarterly_income_statement.csv",
       "quarterly_balance_sheet.csv", "quarterly_cash_flow.csv",
       "major_holders.csv", "recommendations.csv", "esg_data.csv", "news.csv",
       "actions.csv", "dividends.csv", "splits.csv" >>

NumCategories == Len(Categories)

SummaryFile == "summary_report.txt"

\* the kinds of value save_data is handed
DataKinds == {"None", "EmptyDataFrame", "DataFrame", "EmptyDict", "Dict", "BlankStr", "Str"}

\* save_data(data, filename, output_dir, logger) with the file system's answer:
\* ret is the returned boolean, wrote says whether the file was written
save_data(data, io_ok) ==
    IF data \in {"None", "EmptyDataFrame"}
    THEN [ret |-> FALSE, wrote |-> FALSE]
    ELSE IF data \in {"EmptyDict", "BlankStr"}
    THEN [ret |-> FALSE, wrote |-> FALSE]
    ELSE IF io_ok
    THEN [ret |-> TRUE, wrote |-> TRUE]
    ELSE [ret |-> FALSE, wrote |-> FALSE]

\* what the provider and the file system do to one data category
\*   "raise"    the fetch (or the conversion of its result) raises
\*   "empty"    the fetch returns None or empty data
\*   "savefail" the data is non-empty and writing the file raises
\*   "saved"    the data is non-empty and the file is written
Outcomes == {"raise", "empty", "savefail", "saved"}

\* how many times an element of s differs from the one before it
Changes(s) == Cardinality({i \in 1..(Len(s) - 1) : s[i] # s[i + 1]})

(***************************************************************************)
(* Call frames.                                                            *)
(***************************************************************************)
\* locals of get_stock_data, with what the call did to its environment:
\*   waits    the time.sleep durations of the retry loop
\*   outcomes the environment's answer for each category handled so far
\*   made_dir whether os.makedirs created the output directory
\*   written  the paths of the files written
\*   summary  the text of the summary report (its variable parts)
\*   attempts the result of each validation attempt made, "ok" or "failed"
\*   ret      the returned tuple, line the number of the return statement
NoGsd ==
    [ ticker_symbol |-> None, ticker_name |-> None, retry_count |-> 0, delay |-> 0,
      attempt |-> 0, ticker |-> "None", attempts |-> <<>>, waits |-> <<>>,
      output_dir |-> None, made_dir |-> FALSE,
      successful_files |-> 0, generated_files |-> <<>>, summary_report_path |-> None,
      cat |-> 1, outcomes |-> <<>>, written |-> {}, summary |-> None,
      ret |-> None, line |-> 0 ]

\* locals of run_scraper:
\*   idx    the position of the for loop in tickers
\*   calls  the ticker symbols get_stock_data was called with, in order
\*   rets   the tuples those calls returned
\*   sleeps the time.sleep durations between tickers
\*   log    the messages in the stream of the handler made by setup_logging
NoRs ==
    [ ticker_name |-> None, retry_count |-> 0, delay |-> 0,
      tickers |-> <<>>, idx |-> 1, results |-> <<>>,
      successful_tickers |-> <<>>, generated_files |-> <<>>,
      summary_report_path |-> None, calls |-> <<>>, rets |-> <<>>, sleeps |-> <<>>,
      log |-> <<>>, ret |-> None ]

EmptySession == [k \in {} |-> FALSE]

Put(s, k, v) == [x \in DOMAIN s \cup {k} |-> IF x = k THEN v ELSE s[x]]

Has(s, k) == k \in DOMAIN s

\* a log record: level and message (the exception text is left out)
Msg(level, text, arg) == <<level, text, arg>>

Init ==
    /\ pc = "idle"
    /\ session = EmptySession
    /\ submitted = FALSE
    /\ rs = NoRs
    /\ gsd = NoGsd

(***************************************************************************)
(* get_stock_data                                                          *)
(***************************************************************************)
\* what one validation attempt can do: succeed, yf.Ticker raises,
\* or yf.Ticker returns and reading ticker.info raises
AttemptOutcomes == {"ok", "ctor_raises", "info_raises"}

\* range(retry_count)
AttemptRange(retry_count) == 0..(retry_count - 1)

\* off by one: retries after the last allowed attempt as well
RetryAgain_OffByOne(attempt, retry_count) == attempt < retry_count

\* "if attempt < retry_count - 1" in the except branch of the retry loop
RetryAgain(attempt, retry_count) == attempt < retry_count - 1

\* a growing wait: delay * (attempt + 1)
RetryWait_Backoff(delay, attempt) == delay * (attempt + 1)

\* the argument of time.sleep in the retry loop
RetryWait(delay, attempt) == delay

GiveUp == <<FALSE, <<>>, None>>

\* get_stock_data is entered: locals are initialised, the first message logged
GsdEnter(ticker_symbol, ticker_name, retry_count, delay) ==
    [NoGsd EXCEPT !.ticker_symbol = ticker_symbol, !.ticker_name = ticker_name,
                  !.retry_count = retry_count, !.delay = delay]

\* the for loop is left without break or return: "if ticker is None"
AfterLoop(g) ==
    IF g.ticker = "None"
    THEN <<"gsd_ret", [g EXCEPT !.ret = GiveUp, !.line = 127]>>
    ELSE <<"gsd_mkdir", g>>

\* one iteration of the retry loop
GsdAttempt ==
    /\ pc = "gsd_retry"
    /\ gsd.attempt \in AttemptRange(gsd.retry_count)
    /\ \E o \in AttemptOutcomes :
         LET t == IF o = "ctor_raises" THEN gsd.ticker ELSE "Ticker"
             g == [gsd EXCEPT !.ticker = t,
                             !.attempts = Append(@, IF o = "ok" THEN "ok" ELSE "failed")]
         IN  IF o = "ok"
             THEN /\ gsd' = g
                  /\ rs' = [rs EXCEPT !.log = Append(@,
                               Msg("INFO", "Successfully created Ticker object", gsd.ticker_symbol))]
                  /\ pc' = "gsd_mkdir"
             ELSE IF RetryAgain(gsd.attempt, gsd.retry_count)
             THEN LET g2 == [g EXCEPT !.waits = Append(@, RetryWait(gsd.delay, gsd.attempt)),
                                      !.attempt = @ + 1]
                      nxt == IF g2.attempt \in AttemptRange(gsd.retry_count)
                             THEN <<"gsd_retry", g2>> ELSE AfterLoop(g2)
                  IN  /\ gsd' = nxt[2]
                      /\ pc' = nxt[1]
                      /\ rs' = [rs EXCEPT !.log = Append(@,
                                   Msg("WARNING", "Attempt failed. Retrying...", gsd.attempt + 1))]
             ELSE /\ gsd' = [g EXCEPT !.ret = GiveUp, !.line = 124]
                  /\ pc' = "gsd_ret"
                  /\ rs' = [rs EXCEPT !.log = Append(@,
                               Msg("ERROR", "Failed to create Ticker object after attempts",
                                   gsd.retry_count))]
    /\ UNCHANGED <<session, submitted>>

\* create_output_directory: the directory exists, is created, or os.makedirs raises
\* and the outer handler of get_stock_data returns
DirOutcomes == {"exists", "created", "raises"}

create_output_directory(ticker_symbol) == OutputDirName(ticker_symbol)

GsdMkdir ==
    /\ pc = "gsd_mkdir"
    /\ \E o \in DirOutcomes :
         IF o = "raises"
         THEN /\ gsd' = [gsd EXCEPT !.ret = GiveUp, !.line = 341]
              /\ pc' = "gsd_ret"
              /\ rs' = [rs EXCEPT !.log = Append(@,
                           Msg("ERROR", "Error occurred while scraping data", None))]
         ELSE /\ gsd' = [gsd EXCEPT !.output_dir = create_output_directory(gsd.ticker_symbol),
                                    !.made_dir = (o = "created")]
              /\ pc' = "gsd_cat"
              /\ UNCHANGED rs
    /\ UNCHANGED <<session, submitted>>

\* an exception in the fetch makes the same category be fetched again
CategoryStep_RefetchOnRaise(g, o) ==
    LET filename == Categories[g.cat]
        nonempty == o \notin {"raise", "empty"}
        sd       == IF nonempty THEN save_data("DataFrame", o = "saved")
                    ELSE [ret |-> FALSE, wrote |-> FALSE]
        path     == join(g.output_dir, filename)
    IN  [g EXCEPT !.successful_files = IF sd.ret THEN @ + 1 ELSE @,
                  !.generated_files = IF sd.ret THEN Append(@, path) ELSE @,
                  !.written = IF sd.wrote THEN @ \cup {path} ELSE @,
                  !.outcomes = IF o = "raise" THEN @ ELSE Append(@, o),
                  !.cat = IF o = "raise" THEN @ ELSE @ + 1]

\* an exception in the fetch skips the categories after it
CategoryStep_StopOnRaise(g, o) ==
    LET filename == Categories[g.cat]
        nonempty == o \notin {"raise", "empty"}
        sd       == IF nonempty THEN save_data("DataFrame", o = "saved")
                    ELSE [ret |-> FALSE, wrote |-> FALSE]
        path     == join(g.output_dir, filename)
    IN  [g EXCEPT !.successful_files = IF sd.ret THEN @ + 1 ELSE @,
                  !.generated_files = IF sd.ret THEN Append(@, path) ELSE @,
                  !.written = IF sd.wrote THEN @ \cup {path} ELSE @,
                  !.outcomes = Append(@, o),
                  !.cat = IF o = "raise" THEN NumCategories + 1 ELSE @ + 1]

\* the path is appended whenever the data is non-empty, whatever save_data returns
CategoryStep_AppendUnchecked(g, o) ==
    LET filename == Categories[g.cat]
        nonempty == o \notin {"raise", "empty"}
        sd       == IF nonempty THEN save_data("DataFrame", o = "saved")
                    ELSE [ret |-> FALSE, wrote |-> FALSE]
        path     == join(g.output_dir, filename)
    IN  [g EXCEPT !.successful_files = IF sd.ret THEN @ + 1 ELSE @,
                  !.generated_files = IF nonempty THEN Append(@, path) ELSE @,
                  !.written = IF sd.wrote THEN @ \cup {path} ELSE @,
                  !.outcomes = Append(@, o),
                  !.cat = @ + 1]

\* one "try: fetch; if non-empty: if save_data(...): count and append" block
\* for the category at position g.cat, with the environment's outcome o
CategoryStep(g, o) ==
    LET filename == Categories[g.cat]
        fetched  == o # "raise"
        nonempty == fetched /\ o # "empty"
        sd       == IF nonempty THEN save_data("DataFrame", o = "saved")
                    ELSE [ret |-> FALSE, wrote |-> FALSE]
        path     == join(g.output_dir, filename)
    IN  [g EXCEPT !.successful_files = IF sd.ret THEN @ + 1 ELSE @,
                  !.generated_files = IF sd.ret THEN Append(@, path) ELSE @,
                  !.written = IF sd.wrote THEN @ \cup {path} ELSE @,
                  !.outcomes = Append(@, o),
                  !.cat = @ + 1]

\* the messages one category block logs
CategoryLog(filename, o) ==
    << Msg("INFO", "Fetching", filename) >> \o
    ( IF o = "raise" THEN << Msg("WARNING", "Failed to fetch", filename) >>
      ELSE IF o = "savefail" THEN << Msg("ERROR", "Failed to save data", filename) >>
      ELSE IF o = "saved" THEN << Msg("INFO", "Saved DataFrame", filename) >>
      ELSE <<>> )

GsdCategory ==
    /\ pc = "gsd_cat"
    /\ gsd.cat <= NumCategories
    /\ \E o \in Outcomes :
         LET g == CategoryStep(gsd, o)
         IN  /\ Changes(Append(gsd.outcomes, o)) <= MaxOutcomeChanges
             /\ gsd' = g
             /\ rs' = [rs EXCEPT !.log = @ \o CategoryLog(Categories[gsd.cat], o)]
             /\ pc' = IF g.cat > NumCategories THEN "gsd_summary" ELSE "gsd_cat"
    /\ UNCHANGED <<session, submitted>>

\* the report counts the categories fetched instead of the files saved
SummaryText_CountsFetched(g) ==
    [ company |-> g.ticker_name, ticker |-> g.ticker_symbol,
      files_generated |-> Len(g.outcomes), output_dir |-> g.output_dir ]

\* the variable parts of the summary text
SummaryText(g) ==
    [ company |-> g.ticker_name, ticker |-> g.ticker_symbol,
      files_generated |-> g.successful_files, output_dir |-> g.output_dir ]

\* the value get_stock_data returns at the end of the try block
Result(successful_files, generated_files, summary_report_path) ==
    <<successful_files > 0, generated_files, summary_report_path>>

\* the summary report is built and saved, its path recorded, the result returned
SummaryStep(g, io_ok) ==
    LET sd   == save_data("Str", io_ok)
        path == join(g.output_dir, SummaryFile)
        gf   == Append(g.generated_files, path)
    IN  [g EXCEPT !.summary = SummaryText(g),
                  !.written = IF sd.wrote THEN @ \cup {path} ELSE @,
                  !.summary_report_path = path,
                  !.generated_files = gf,
                  !.ret = Result(g.successful_files, gf, path),
                  !.line = 337]

GsdSummary ==
    /\ pc = "gsd_summary"
    /\ \E io_ok \in BOOLEAN :
         /\ gsd' = SummaryStep(gsd, io_ok)
         /\ rs' = [rs EXCEPT !.log = @ \o
                      << IF io_ok THEN Msg("INFO", "Saved data", SummaryFile)
                         ELSE Msg("ERROR", "Failed to save data", SummaryFile),
                         Msg("INFO", "Created summary report", None) >>]
    /\ pc' = "gsd_ret"
    /\ UNCHANGED <<session, submitted>>

(***************************************************************************)
(* run_scraper                                                             *)
(***************************************************************************)
\* run_scraper is entered: the logger is set up and the candidates computed
RsEnter(ticker_name, retry_count, delay) ==
    [NoRs EXCEPT !.ticker_name = ticker_name, !.retry_count = retry_count,
                 !.delay = delay,
                 !.tickers = get_indian_tickers(replace(ticker_name, " ", <<>>))]

\* the loop takes the next candidate and calls get_stock_data
RsCall ==
    /\ pc = "rs_loop"
    /\ rs.idx <= Len(rs.tickers)
    /\ LET ticker == rs.tickers[rs.idx]
           g == GsdEnter(ticker, rs.ticker_name, rs.retry_count, rs.delay)
           nxt == IF g.attempt \in AttemptRange(g.retry_count)
                  THEN <<"gsd_retry", g>> ELSE AfterLoop(g)
       IN  /\ gsd' = nxt[2]
           /\ pc' = nxt[1]
           /\ rs' = [rs EXCEPT !.calls = Append(@, ticker),
                               !.log = @ \o << Msg("INFO", "Attempting to scrape data for ticker", ticker),
                                               Msg("INFO", "Fetching data for", ticker) >>]
    /\ UNCHANGED <<session, submitted>>

\* get_stock_data has returned: the loop body after the call
RsAfterCall(r, ret) ==
    LET ticker == r.tickers[r.idx]
        result == ret[1]
        files  == ret[2]
        summary_path == ret[3]
    IN  [r EXCEPT !.results = Put(@, ticker, result),
                  !.successful_tickers = IF result THEN Append(@, ticker) ELSE @,
                  !.generated_files = IF result THEN @ \o files ELSE @,
                  !.summary_report_path = IF result /\ summary_path # None
                                          THEN summary_path ELSE @,
                  !.rets = Append(@, ret),
                  !.sleeps = IF ticker # r.tickers[Len(r.tickers)]
                             THEN Append(@, r.delay) ELSE @,
                  !.log = Append(@, IF result
                             THEN Msg("INFO", "Successfully scraped data using ticker", ticker)
                             ELSE Msg("WARNING", "Failed to scrape complete data using ticker", ticker)),
                  !.idx = @ + 1]

RsHandleResult ==
    /\ pc = "gsd_ret"
    /\ rs' = RsAfterCall(rs, gsd.ret)
    /\ gsd' = NoGsd
    /\ pc' = "rs_loop"
    /\ UNCHANGED <<session, submitted>>

\* the 4-tuple run_scraper returns; log_stream was read before the last messages
RsResult(r, log_stream) ==
    IF Len(r.successful_tickers) = 0
    THEN <<FALSE, <<>>, None, log_stream>>
    ELSE <<TRUE, r.generated_files, r.summary_report_path, log_stream>>

RsReturn ==
    /\ pc = "rs_loop"
    /\ rs.idx > Len(rs.tickers)
    /\ LET log_stream == rs.log
           success_count == Len(rs.successful_tickers)
       IN  rs' = [rs EXCEPT !.ret = RsResult(rs, log_stream),
                           !.log = @ \o
                             << Msg("INFO", "Successfully scraped data for tickers", success_count),
                                IF success_count = 0
                                THEN Msg("ERROR", "Failed to scrape data using any of the provided tickers", None)
                                ELSE Msg("INFO", "Data scraping successful for", rs.successful_tickers) >>]
    /\ pc' = "rs_ret"
    /\ UNCHANGED <<session, submitted, gsd>>

(***************************************************************************)
(* main: one action per script run                                         *)
(***************************************************************************)
ResultKeys == {"success", "generated_files", "summary_report_path", "log_output"}

ResetKeys == {"processing", "completed", "success", "generated_files",
              "summary_report_path", "log_output", "selected_file"}

\* the check of 'processing' is missing
StartsScraper_AnySubmit(sub, ticker_name, s) == sub /\ ticker_name # <<>>

\* "if submitted and ticker_name" and "if 'processing' not in st.session_state"
StartsScraper(sub, ticker_name, s) == sub /\ ticker_name # <<>> /\ ~Has(s, "processing")

\* the form is submitted: the script runs with submitted = True
Submit ==
    /\ pc = "idle"
    /\ \E form \in Submissions :
         IF StartsScraper(TRUE, form.ticker_name, session)
         THEN /\ session' = Put(Put(session, "processing", TRUE), "completed", FALSE)
              /\ rs' = RsEnter(form.ticker_name, form.retry_count, form.delay)
              /\ pc' = "rs_loop"
         ELSE UNCHANGED <<session, rs, pc>>
    /\ submitted' = TRUE
    /\ UNCHANGED gsd

\* run_scraper has returned: the results are stored and st.rerun() runs the
\* script again, with submitted = False
StoreResults(s, ret) ==
    Put(Put(Put(Put(Put(Put(s, "processing", FALSE), "completed", TRUE),
        "success", ret[1]), "generated_files", ret[2]),
        "summary_report_path", ret[3]), "log_output", ret[4])

MainStore ==
    /\ pc = "rs_ret"
    /\ session' = StoreResults(session, rs.ret)
    /\ rs' = NoRs
    /\ pc' = "idle"
    /\ submitted' = FALSE
    /\ UNCHANGED gsd

\* "if 'completed' in st.session_state and st.session_state.completed"
ShowsResults(s) == Has(s, "completed") /\ s["completed"]

\* "Start New Search" is clicked
ClickReset ==
    /\ pc = "idle"
    /\ ShowsResults(session)
    /\ session' = [k \in DOMAIN session \ ResetKeys |-> session[k]]
    /\ submitted' = FALSE
    /\ UNCHANGED <<pc, rs, gsd>>

Next ==
    \/ Submit
    \/ RsCall
    \/ GsdAttempt
    \/ GsdMkdir
    \/ GsdCategory
    \/ GsdSummary
    \/ RsHandleResult
    \/ RsReturn
    \/ MainStore
    \/ ClickReset

Spec == Init /\ [][Next]_vars

(***************************************************************************)
(* Properties.                                                             *)
(***************************************************************************)
GsdPcs == {"gsd_retry", "gsd_mkdir", "gsd_cat", "gsd_summary", "gsd_ret"}

\* every allowed validation attempt was made and failed
AllFailed(g) ==
    /\ Len(g.attempts) = g.retry_count
    /\ \A i \in 1..Len(g.attempts) : g.attempts[i] = "failed"

\* get_stock_data returned from its retry loop
GaveUp == pc = "gsd_ret" /\ gsd.line \in {124, 127}

\* C1: in every call of get_stock_data with retry_count >= 1, at most retry_count
\* validation attempts are made, no attempt follows a successful one, and the
\* call returns (False, [], None) from its retry loop exactly when retry_count
\* attempts were made and all of them failed.
C1_RetryLoop ==
    pc \in GsdPcs =>
        /\ gsd.retry_count >= 1
        /\ Len(gsd.attempts) <= gsd.retry_count
        /\ \A i \in 1..(Len(gsd.attempts) - 1) : gsd.attempts[i] = "failed"
        /\ pc = "gsd_retry" => \A i \in 1..Len(gsd.attempts) : gsd.attempts[i] = "failed"
        /\ AllFailed(gsd) <=> GaveUp
        /\ GaveUp => gsd.ret = <<FALSE, <<>>, None>>

\* three attempts were allowed, all three failed, and the call gave up
C1_Witness ==
    /\ GaveUp
    /\ gsd.retry_count = 3
    /\ gsd.attempts = <<"failed", "failed", "failed">>

InFiles(files, p) == \E j \in 1..Len(files) : files[j] = p

CategoryPath(g, i) == <<g.output_dir, Categories[i]>>

\* the fetch raised nothing, the data was non-empty and save_data returned True
FetchedAndSaved(o) ==
    /\ o # "raise"
    /\ o # "empty"
    /\ save_data("DataFrame", o = "saved").ret

\* get_stock_data is past create_output_directory
InCategories ==
    \/ pc \in {"gsd_cat", "gsd_summary"}
    \/ pc = "gsd_ret" /\ gsd.line = 337

\* save_data returns True only with the file written, and returns False with
\* nothing written for None and for an empty table
SaveDataContract ==
    \A d \in DataKinds, io_ok \in BOOLEAN :
        /\ save_data(d, io_ok).ret => save_data(d, io_ok).wrote /\ io_ok
        /\ d \in {"None", "EmptyDataFrame"} =>
               ~save_data(d, io_ok).ret /\ ~save_data(d, io_ok).wrote

\* the category at position i is listed exactly when it was fetched and saved,
\* and a listed category file has been written
CategoryListed(i) ==
    /\ InFiles(gsd.generated_files, CategoryPath(gsd, i)) <=>
           (i <= Len(gsd.outcomes) /\ FetchedAndSaved(gsd.outcomes[i]))
    /\ InFiles(gsd.generated_files, CategoryPath(gsd, i)) =>
           CategoryPath(gsd, i) \in gsd.written

\* C2 as stated: a validated call returns after handling 14 data categories,
\* each listed in generated_files exactly when it was fetched and saved.
C2_FourteenCategories ==
    /\ SaveDataContract
    /\ (pc = "gsd_ret" /\ gsd.line = 337) =>
           /\ Len(gsd.outcomes) = 14
           /\ \A i \in 1..14 : CategoryListed(i)

\* C2 amended: get_stock_data has 15 data categories; once the ticker is
\* validated, each category's path is in generated_files exactly when its fetch
\* raised nothing, returned non-empty data and save_data returned True, and
\* then its file has been written; the call returns after all 15 are handled.
\* save_data returns True only with the file written, and False with nothing
\* written for None and for an empty table.
C2_FifteenCategories ==
    /\ SaveDataContract
    /\ InCategories =>
           /\ \A i \in 1..15 : CategoryListed(i)
           /\ NumCategories = 15
           /\ pc = "gsd_ret" => Len(gsd.outcomes) = 15 /\ gsd.ret[2] = gsd.generated_files
    /\ (pc = "gsd_ret" /\ gsd.line # 337) => gsd.outcomes = <<>> /\ gsd.ret[2] = <<>>

\* a call returned with one category saved and another whose save failed
C2_Witness ==
    /\ pc = "gsd_ret"
    /\ gsd.line = 337
    /\ \E i, j \in 1..Len(gsd.outcomes) :
           /\ gsd.outcomes[i] = "saved"
           /\ gsd.outcomes[j] = "savefail"
           /\ InFiles(gsd.ret[2], CategoryPath(gsd, i))
           /\ ~InFiles(gsd.ret[2], CategoryPath(gsd, j))

\* C3: whenever get_stock_data returns a summary_report_path that is not None,
\* the summary report has been written to that path during the call and the
\* path is the last element of the returned generated_files.
C3_SummaryWritten ==
    (pc = "gsd_ret" /\ gsd.ret[3] # None) =>
        /\ gsd.ret[3] \in gsd.written
        /\ gsd.ret[2][Len(gsd.ret[2])] = gsd.ret[3]

IsSpace(c) == c = " "

NotSpace(c) == ~IsSpace(c)

\* C4: during a run of run_scraper the candidate list is non-empty, every
\* candidate is the company name without its spaces followed by ".NS", and
\* get_stock_data is called once per candidate, in list order: the calls made
\* so far are a prefix of the list, one call is in progress at a time, and at
\* the return every candidate has been called exactly once.
C4_Candidates ==
    pc # "idle" =>
        /\ Len(rs.tickers) >= 1
        /\ \A i \in 1..Len(rs.tickers) :
               rs.tickers[i] = SelectSeq(rs.ticker_name, NotSpace) \o <<".", "N", "S">>
        /\ Len(rs.calls) <= Len(rs.tickers)
        /\ rs.calls = SubSeq(rs.tickers, 1, Len(rs.calls))
        /\ pc \in GsdPcs =>
               /\ Len(rs.calls) = rs.idx
               /\ Len(rs.rets) = rs.idx - 1
               /\ gsd.ticker_symbol = rs.tickers[rs.idx]
        /\ pc = "rs_loop" => Len(rs.calls) = rs.idx - 1 /\ Len(rs.rets) = rs.idx - 1
        /\ pc = "rs_ret" => rs.calls = rs.tickers /\ Len(rs.rets) = Len(rs.tickers)

\* run_scraper returned for a name with two spaces, having called TCS.NS once
C4_Witness ==
    /\ pc = "rs_ret"
    /\ rs.ticker_name = <<"T", " ", "C", " ", "S">>
    /\ rs.tickers = << <<"T", "C", "S", ".", "N", "S">> >>
    /\ rs.calls = << <<"T", "C", "S", ".", "N", "S">> >>
    /\ rs.rets[1][1] = FALSE

\* the failed attempts that were not the last allowed one
FailedBeforeLast(g) ==
    {i \in 1..Len(g.attempts) : g.attempts[i] = "failed" /\ i < g.retry_count}

\* C5: in get_stock_data one wait follows each failed validation attempt that
\* is not the last allowed one and nothing else waits: the number of waits is
\* the number of such attempts, at most retry_count - 1, every wait lasts
\* `delay` seconds, and every wait is followed by a further attempt.
C5_Waits ==
    pc \in GsdPcs =>
        /\ Len(gsd.waits) = Cardinality(FailedBeforeLast(gsd))
        /\ Len(gsd.waits) <= gsd.retry_count - 1
        /\ \A i \in 1..Len(gsd.waits) : gsd.waits[i] = gsd.delay
        /\ pc = "gsd_retry" => Len(gsd.attempts) = Len(gsd.waits)
        /\ pc # "gsd_retry" => Len(gsd.attempts) = Len(gsd.waits) + 1

\* two attempts failed, the third succeeded: two waits of 5 seconds
C5_Witness ==
    /\ pc = "gsd_mkdir"
    /\ gsd.retry_count = 3
    /\ gsd.attempts = <<"failed", "failed", "ok">>
    /\ gsd.waits = <<5, 5>>

IsFetch(m) == m[2] = "Fetching"

\* the categories whose fetch was logged, in the order logged
Fetched(log) ==
    LET f == SelectSeq(log, IsFetch) IN [i \in 1..Len(f) |-> f[i][3]]

Validated(g) == Len(g.attempts) > 0 /\ g.attempts[Len(g.attempts)] = "ok"

\* one category block: the next category in order is fetched, the files and
\* the count recorded before are kept, and an exception in the fetch or in the
\* save adds nothing and leads on to the next category or to the summary
CategoryBlockStep ==
    (pc = "gsd_cat") =>
        /\ pc' \in {"gsd_cat", "gsd_summary"}
        /\ gsd'.cat = gsd.cat + 1
        /\ Fetched(rs'.log) = Append(Fetched(rs.log), Categories[gsd.cat])
        /\ SubSeq(gsd'.generated_files, 1, Len(gsd.generated_files)) = gsd.generated_files
        /\ gsd'.successful_files >= gsd.successful_files
        /\ gsd.written \subseteq gsd'.written
        /\ gsd'.outcomes[gsd.cat] \in {"raise", "savefail"} =>
               /\ gsd'.generated_files = gsd.generated_files
               /\ gsd'.successful_files = gsd.successful_files
               /\ gsd'.written = gsd.written

\* a call is left only by a return of a 3-tuple
LeftByReturn ==
    /\ (pc \in GsdPcs /\ pc # "gsd_ret") => pc' \in GsdPcs
    /\ (pc \in GsdPcs /\ pc' = "gsd_ret") =>
           /\ Len(gsd'.ret) = 3
           /\ gsd'.ret[1] \in BOOLEAN
           /\ gsd'.line \in {124, 127, 337, 341}

\* C6 as stated: an exception in one category block keeps what earlier
\* categories recorded and does not stop the later ones; every call that passes
\* validation (and reaches the end of its try block) has fetched 14 categories
\* in the fixed order; the call always ends in a return.
C6_FourteenAttempted ==
    [][ /\ CategoryBlockStep
        /\ LeftByReturn
        /\ (pc \in GsdPcs /\ pc' = "gsd_ret" /\ Validated(gsd') /\ gsd'.line = 337) =>
               /\ Len(Fetched(rs'.log)) = 14
               /\ Fetched(rs'.log) = SubSeq(Categories, 1, 14) ]_vars

\* C6 amended: an exception raised while fetching or saving one category keeps
\* the files and the count recorded for earlier categories and does not stop
\* the later ones; every call that passes validation and gets its output
\* directory fetches all 15 categories in the same fixed order, a validated
\* call whose os.makedirs raises fetches none, and get_stock_data always ends
\* in a return, never in an exception.
C6_FifteenAttempted ==
    [][ /\ CategoryBlockStep
        /\ LeftByReturn
        /\ (pc \in GsdPcs /\ pc' = "gsd_ret" /\ Validated(gsd')) =>
               /\ gsd'.line \in {337, 341}
               /\ gsd'.line = 337 =>
                      /\ Fetched(rs'.log) = Categories
                      /\ Len(Categories) = 15
                      /\ Len(gsd'.outcomes) = 15
               /\ gsd'.line = 341 => Fetched(rs'.log) = <<>> ]_vars

\* the first category was saved, a later fetch raised, and the call returned
\* with the first file still listed and all 15 categories fetched
C6_Witness ==
    /\ pc = "gsd_ret"
    /\ gsd.line = 337
    /\ gsd.outcomes[1] = "saved"
    /\ gsd.outcomes[15] = "raise"
    /\ gsd.generated_files[1] = CategoryPath(gsd, 1)
    /\ Fetched(rs.log) = Categories

\* the steps of the running program, all but the user's
RunNext ==
    \/ RsCall
    \/ GsdAttempt
    \/ GsdMkdir
    \/ GsdCategory
    \/ GsdSummary
    \/ RsHandleResult
    \/ RsReturn

Running == pc \notin {"idle", "rs_ret"}

\* the steps one call of get_stock_data takes at most, with n category fetches:
\* retry_count attempts, the directory, n fetches, the summary, and the
\* caller's handling of the result
CallSteps(retry_count, n) == retry_count + n + 3

\* the steps the call in progress may still take
CallStepsLeft(n) ==
    IF pc = "gsd_retry" THEN (gsd.retry_count - Len(gsd.attempts)) + n + 3
    ELSE IF pc = "gsd_mkdir" THEN n + 3
    ELSE IF pc = "gsd_cat" THEN (n - gsd.cat + 1) + 2
    ELSE IF pc = "gsd_summary" THEN 2
    ELSE 1

\* the steps run_scraper may still take before it returns
StepsLeft(n) ==
    IF pc = "rs_loop"
    THEN (Len(rs.tickers) - rs.idx + 1) * (1 + CallSteps(rs.retry_count, n)) + 1
    ELSE IF pc \in GsdPcs
    THEN (Len(rs.tickers) - rs.idx) * (1 + CallSteps(rs.retry_count, n)) + 1 + CallStepsLeft(n)
    ELSE 0

\* what holds of every state with at most n category fetches per candidate:
\* a running state has a next step, and the attempts and fetches are bounded
RunBounded(n) ==
    /\ Running => ENABLED RunNext
    /\ pc \in GsdPcs =>
           /\ Len(gsd.attempts) <= gsd.retry_count
           /\ Len(gsd.outcomes) <= n
           /\ gsd.cat = Len(gsd.outcomes) + 1

\* what holds of every step: a run starts with a bounded number of steps left,
\* every step of it uses one up, and it ends in the return of a 4-tuple
RunProgress(n) ==
    /\ (pc = "idle" /\ pc' # "idle") =>
           /\ pc' = "rs_loop"
           /\ rs'.retry_count >= 1
           /\ StepsLeft(n)' = Len(rs'.tickers) * (1 + CallSteps(rs'.retry_count, n)) + 1
    /\ Running =>
           /\ pc' # "idle"
           /\ StepsLeft(n)' >= 0
           /\ StepsLeft(n)' < StepsLeft(n)
           /\ (pc' = "rs_ret" => Len(rs'.ret) = 4 /\ rs'.ret[1] \in BOOLEAN)

\* C7 as stated: run_scraper terminates with a 4-tuple after a bounded number of
\* steps, at most retry_count validation attempts and 14 category fetches per
\* candidate ticker, no step repeated.
C7_FourteenFetches == [](RunBounded(14)) /\ [][RunProgress(14)]_vars

\* C7 amended: for every company name, every retry_count >= 1 and every
\* pattern of provider and file-system failures, run_scraper terminates and
\* returns a 4-tuple after a bounded number of steps: at most retry_count
\* validation attempts and 15 category fetches per candidate ticker, with no
\* step repeated.
C7_FifteenFetches == [](RunBounded(15)) /\ [][RunProgress(15)]_vars

\* run_scraper returned after a call that needed all three attempts and made
\* all 15 fetches
C7_Witness ==
    /\ pc = "rs_ret"
    /\ Len(rs.ret) = 4
    /\ rs.retry_count = 3
    /\ rs.log[4] = Msg("WARNING", "Attempt failed. Retrying...", 2)
    /\ Len(Fetched(rs.log)) = 15

\* the category files written by the call in progress
SavedCategoryFiles(g) == {p \in g.written : p[2] # SummaryFile}

\* C8: from validation on, successful_files is the number of category paths
\* appended to generated_files; the "Files Generated" number of the summary
\* report is the number of category files saved in the call and the length of
\* the returned generated_files minus one.
C8_CountMatchesFiles ==
    /\ pc \in {"gsd_mkdir", "gsd_cat", "gsd_summary"} =>
           /\ gsd.successful_files = Len(gsd.generated_files)
           /\ gsd.successful_files = Cardinality(SavedCategoryFiles(gsd))
           /\ \A i \in 1..Len(gsd.generated_files) :
                  gsd.generated_files[i] \in SavedCategoryFiles(gsd)
    /\ (pc = "gsd_ret" /\ gsd.line = 337) =>
           /\ gsd.summary.files_generated = gsd.successful_files
           /\ gsd.summary.files_generated = Cardinality(SavedCategoryFiles(gsd))
           /\ gsd.summary.files_generated = Len(gsd.ret[2]) - 1
           /\ gsd.successful_files = Len(gsd.generated_files) - 1

\* a call returned with some categories saved and others not
C8_Witness ==
    /\ pc = "gsd_ret"
    /\ gsd.line = 337
    /\ gsd.summary.files_generated > 0
    /\ gsd.summary.files_generated < 15
    /\ Len(gsd.ret[2]) = gsd.summary.files_generated + 1

SearchKeys == {"processing", "completed"} \cup ResultKeys

\* the session while a search runs and between searches
SessionShape ==
    /\ pc # "idle" =>
           /\ submitted
           /\ rs.ticker_name # <<>>
           /\ DOMAIN session = {"processing", "completed"}
           /\ session["processing"]
           /\ ~session["completed"]
    /\ pc = "idle" =>
           \/ DOMAIN session = {}
           \/ /\ DOMAIN session = SearchKeys
              /\ ~session["processing"]
              /\ session["completed"]

\* the steps that start a search, store its results and follow a completed one
SessionStep ==
    /\ (pc = "idle" /\ pc' # "idle") =>
           /\ ~Has(session, "processing")
           /\ submitted'
           /\ pc' = "rs_loop"
           /\ rs'.ticker_name # <<>>
           /\ rs'.calls = <<>>
    /\ (pc = "rs_ret" /\ pc' # "rs_ret") =>
           /\ pc' = "idle"
           /\ ~session'["processing"]
           /\ session'["completed"]
           /\ session'["success"] = rs.ret[1]
           /\ session'["generated_files"] = rs.ret[2]
           /\ session'["summary_report_path"] = rs.ret[3]
           /\ session'["log_output"] = rs.ret[4]
    /\ (pc = "idle" /\ Has(session, "processing")) =>
           /\ pc' = "idle"
           /\ \/ session' = session
              \/ DOMAIN session' \cap SearchKeys = {} /\ ~submitted'

\* C9: run_scraper is started only by a submitted form with a non-empty name
\* while 'processing' is absent from the session; a completed search leaves
\* processing = False, completed = True and the four results set; while these
\* keys are present no step starts the scraper, and the only step that changes
\* the session is "Start New Search", which deletes them all.
C9_OncePerSearch == [](SessionShape) /\ [][SessionStep]_vars

\* a form was submitted after a completed search and the scraper did not run
C9_Witness ==
    /\ pc = "idle"
    /\ submitted
    /\ Has(session, "completed")
    /\ session["completed"]
    /\ ~session["processing"]
    /\ Has(session, "log_output")

\* the file lists of the calls that reported True, in call order
RECURSIVE FilesOfSuccessful(_)
FilesOfSuccessful(rets) ==
    IF rets = <<>> THEN <<>>
    ELSE (IF Head(rets)[1] THEN Head(rets)[2] ELSE <<>>) \o FilesOfSuccessful(Tail(rets))

SummaryPath(g) == <<g.output_dir, SummaryFile>>

\* C10: get_stock_data reports True exactly when at least one category file
\* was saved; a validated call whose categories were all empty or failed
\* returns (False, [summary path], summary path) with the summary file
\* written; run_scraper returns True only if some candidate reported True,
\* with the concatenation of the file lists of the candidates that reported
\* True, and (False, [], None) when none did.
C10_SuccessNeedsCategoryFile ==
    /\ pc = "gsd_ret" => (gsd.ret[1] <=> SavedCategoryFiles(gsd) # {})
    /\ (pc = "gsd_ret" /\ Validated(gsd) /\ Len(gsd.outcomes) = NumCategories
          /\ \A i \in 1..NumCategories : gsd.outcomes[i] # "saved") =>
           /\ gsd.ret = <<FALSE, <<SummaryPath(gsd)>>, SummaryPath(gsd)>>
           /\ SummaryPath(gsd) \in gsd.written
    /\ pc = "rs_ret" =>
           /\ rs.ret[1] <=> (\E i \in 1..Len(rs.rets) : rs.rets[i][1])
           /\ rs.ret[1] => rs.ret[2] = FilesOfSuccessful(rs.rets)
           /\ ~rs.ret[1] => rs.ret[2] = <<>> /\ rs.ret[3] = None

\* the ticker symbol with "_" at the places of its "."
Underscored(sym) == [i \in 1..Len(sym) |-> IF sym[i] = "." THEN "_" ELSE sym[i]]

\* the call in progress has touched nothing on disk
NothingOnDisk(g) == ~g.made_dir /\ g.written = {} /\ g.output_dir = None

\* C11: a call of get_stock_data that gives up because every validation
\* attempt failed has created no output directory and written no file; until
\* a validation attempt has succeeded no directory is created and nothing is
\* written; the output directory, once named, is "stock_data_" followed by
\* the ticker symbol with every "." replaced by "_", and every file written
\* lies in it.
C11_DirectoryAfterValidation ==
    pc \in GsdPcs =>
        /\ (GaveUp /\ AllFailed(gsd)) => NothingOnDisk(gsd)
        /\ ~Validated(gsd) => NothingOnDisk(gsd)
        /\ pc \in {"gsd_retry", "gsd_mkdir"} => NothingOnDisk(gsd)
        /\ pc \in {"gsd_cat", "gsd_summary"} => gsd.output_dir # None
        /\ gsd.output_dir # None =>
               /\ Validated(gsd)
               /\ gsd.output_dir = StockDataPrefix \o Underscored(gsd.ticker_symbol)
               /\ \A i \in 1..Len(gsd.output_dir) : gsd.output_dir[i] # "."
        /\ \A p \in gsd.written : p[1] = gsd.output_dir

\* the output directory of a symbol with two "." was created
DirectoryCreated ==
    /\ pc = "gsd_cat"
    /\ gsd.made_dir
    /\ gsd.ticker_symbol = <<"M", ".", "M", ".", "N", "S">>
    /\ gsd.output_dir = StockDataPrefix \o <<"M", "_", "M", "_", "N", "S">>

\* the call for M.M.NS gave up after its only attempt failed, with no
\* directory created, no directory named and no file written
C11_Witness ==
    /\ GaveUp
    /\ AllFailed(gsd)
    /\ gsd.ticker_symbol = <<"M", ".", "M", ".", "N", "S">>
    /\ gsd.attempts = <<"failed">>
    /\ ~gsd.made_dir
    /\ gsd.written = {}
    /\ gsd.output_dir = None

\* C12: the log text run_scraper returns holds every message logged during
\* the run, in the order logged, the final messages that report how many
\* tickers succeeded and which ones (or that none did) included: the returned
\* text is the whole content of the handler's stream at the return.
C12_LogComplete ==
    pc = "rs_ret" =>
        /\ rs.ret[4] = rs.log
        /\ \E i \in 1..Len(rs.ret[4]) :
               rs.ret[4][i][2] = "Successfully scraped data for tickers"

\* the returned text is what was logged up to the end of the loop: the stream
\* at the return without its last two messages
LogWithoutFinalMessages ==
    pc = "rs_ret" =>
        /\ Len(rs.log) = Len(rs.ret[4]) + 2
        /\ rs.ret[4] = SubSeq(rs.log, 1, Len(rs.log) - 2)
        /\ rs.log[Len(rs.log) - 1][2] = "Successfully scraped data for tickers"

====
